---- MODULE Spec2Model ----
(***************************************************************************)
(* Model of the concurrent shader compilation engine of ShaderGenerator:   *)
(* ShaderCompilationContext, CompileWorker and CompileShader of            *)
(* ShaderGenerator/ShaderCompiler.cpp.                                     *)
(*                                                                         *)
(* A blob pointer (com_ptr<ID3DBlob>) is a sequence of length 0 (null) or  *)
(* 1 (the blob's content).  Byte strings are sequences of small integers.  *)
(* A diagnostic text is a sequence of tokens, the token NL standing for    *)
(* the '\n' character; a line is a sequence of tokens without NL.          *)
(***************************************************************************)
EXTENDS Integers, Sequences, FiniteSets, TLC

\* ---------------------------------------------------------------- bounds
MaxPerms == 2
MaxHC == 2

\* ------------------------------------------------- d3dcompiler.h flag bits
D3DCOMPILE_DEBUG == 2^0
D3DCOMPILE_SKIP_OPTIMIZATION == 2^2
D3DCOMPILE_OPTIMIZATION_LEVEL0 == 2^14
D3DCOMPILE_OPTIMIZATION_LEVEL1 == 0
D3DCOMPILE_OPTIMIZATION_LEVEL2 == 2^14 + 2^15
D3DCOMPILE_OPTIMIZATION_LEVEL3 == 2^15
D3DCOMPILE_DEBUG_NAME_FOR_BINARY == 2^22

RECURSIVE BitOr(_, _)
BitOr(a, b) ==
  IF a = 0 THEN b
  ELSE IF b = 0 THEN a
  ELSE (IF a % 2 = 1 \/ b % 2 = 1 THEN 1 ELSE 0) + 2 * BitOr(a \div 2, b \div 2)

RECURSIVE BitAnd(_, _)
BitAnd(a, b) ==
  IF a = 0 \/ b = 0 THEN 0
  ELSE (IF a % 2 = 1 /\ b % 2 = 1 THEN 1 ELSE 0) + 2 * BitAnd(a \div 2, b \div 2)

\* Lines 66-70: the debug part of the compilation flags.
DebugFlags(IsDebug) ==
  IF IsDebug THEN BitOr(D3DCOMPILE_DEBUG, D3DCOMPILE_DEBUG_NAME_FOR_BINARY) ELSE 0

\* The switch with the flag of case 3 pasted into case 2.
OptimizationFlags_Pasted(level) ==
  CASE level = -1 -> D3DCOMPILE_SKIP_OPTIMIZATION
    [] level = 0 -> D3DCOMPILE_OPTIMIZATION_LEVEL0
    [] level = 1 -> D3DCOMPILE_OPTIMIZATION_LEVEL1
    [] level = 2 -> D3DCOMPILE_OPTIMIZATION_LEVEL3
    [] level = 3 -> D3DCOMPILE_OPTIMIZATION_LEVEL3
    [] OTHER -> 0

\* Lines 72-89: the switch over OptimizationLevel (no default label).
OptimizationFlags(level) ==
  CASE level = -1 -> D3DCOMPILE_SKIP_OPTIMIZATION
    [] level = 0 -> D3DCOMPILE_OPTIMIZATION_LEVEL0
    [] level = 1 -> D3DCOMPILE_OPTIMIZATION_LEVEL1
    [] level = 2 -> D3DCOMPILE_OPTIMIZATION_LEVEL2
    [] level = 3 -> D3DCOMPILE_OPTIMIZATION_LEVEL3
    [] OTHER -> 0

\* Lines 66-89: flags = 0u, then the two |= contributions.
CompilationFlags(options) ==
  BitOr(BitOr(0, DebugFlags(options.IsDebug)), OptimizationFlags(options.OptimizationLevel))

\* ------------------------------------------------------ diagnostic lines
NL == "\n"
WarningX3568 == ": warning X3568: '"
UnknownPragmaIgnored == "' : unknown pragma ignored"
IgnoredPragmas == {"target", "namespace", "entry", "option"}

\* The pattern with 'target' missing from its alternatives.
RegexMatch_NoTarget(line) ==
  /\ Len(line) >= 3
  /\ line[Len(line) - 2] = WarningX3568
  /\ line[Len(line) - 1] \in IgnoredPragmas \ {"target"}
  /\ line[Len(line)] = UnknownPragmaIgnored

\* The pattern with any pragma name accepted between the quotes.
RegexMatch_AnyPragma(line) ==
  /\ Len(line) >= 3
  /\ line[Len(line) - 2] = WarningX3568
  /\ line[Len(line)] = UnknownPragmaIgnored

\* Line 141 with regex_match of line 145: the whole line must be
\* <anything> WarningX3568 <one of the four pragmas> UnknownPragmaIgnored.
RegexMatch(line) ==
  /\ Len(line) >= 3
  /\ line[Len(line) - 2] = WarningX3568
  /\ line[Len(line) - 1] \in IgnoredPragmas
  /\ line[Len(line)] = UnknownPragmaIgnored

\* std::getline(messages, message, '\n') of line 143: the characters up to
\* the first delimiter (or the end), the delimiter dropped; it fails when
\* the stream has no character left.
RECURSIVE LineEnd(_, _)
LineEnd(s, i) == IF i > Len(s) \/ s[i] = NL THEN i ELSE LineEnd(s, i + 1)

GetLine(s) ==
  IF s = <<>> THEN [ok |-> FALSE, line |-> <<>>, rest |-> <<>>]
  ELSE LET e == LineEnd(s, 1) IN
       [ok |-> TRUE, line |-> SubSeq(s, 1, e - 1), rest |-> SubSeq(s, e + 1, Len(s))]

\* Sample diagnostic lines of the backend.
LineTarget == <<"a.hlsl(1,9)", WarningX3568, "target", UnknownPragmaIgnored>>
LinePack == <<"a.hlsl(3,9)", WarningX3568, "pack_matrix", UnknownPragmaIgnored>>
LineTrunc == <<"a.hlsl(7,3)", ": warning X3206: implicit truncation of vector type">>
LineError == <<"a.hlsl(9,1)", ": error X3000: syntax error">>

AllLines == {LineTarget, LinePack, LineTrunc, LineError}

Text(lines) ==
  LET RECURSIVE Cat(_)
      Cat(i) == IF i > Len(lines) THEN <<>> ELSE lines[i] \o <<NL>> \o Cat(i + 1)
  IN Cat(1)


\* Diagnostic texts the backend may return with a successful compile and
\* with a failed one (each line ends with '\n').
SuccessTexts == {Text(<<LineTarget, LineTrunc>>)}
FailureTexts == {Text(<<LinePack, LineError>>)}

\* The lines of a text, as getline yields them one after the other.
RECURSIVE LinesOf(_)
LinesOf(s) == LET g == GetLine(s) IN IF g.ok THEN <<g.line>> \o LinesOf(g.rest) ELSE <<>>

\* ------------------------------------------------------------ the backend
\* A compiled binary: the permutation it was compiled from (through its
\* defines), the flags, whether it still embeds debug information and which
\* blob parts D3DGetBlobPart can extract from it.
Binary(i, flags, pdb, name) ==
  [code |-> i, flags |-> flags, debug |-> BitAnd(flags, D3DCOMPILE_DEBUG) # 0,
   pdb |-> pdb, name |-> name]

\* D3DCompileFromFile (lines 93-102): on success a binary and possibly a
\* diagnostic blob; on failure no binary and possibly a diagnostic blob.
\* Without D3DCOMPILE_DEBUG the binary has no debug parts.
D3DCompileFromFile(i, flags) ==
  LET dbg == BitAnd(flags, D3DCOMPILE_DEBUG) # 0
      parts == IF dbg THEN BOOLEAN \X BOOLEAN ELSE {<<FALSE, FALSE>>}
  IN {[success |-> TRUE, binary |-> <<Binary(i, flags, p[1], p[2])>>, errors |-> e] :
        p \in parts, e \in {<<>>} \cup {<<t>> : t \in SuccessTexts}}
     \cup
     {[success |-> FALSE, binary |-> <<>>, errors |-> e] :
        e \in {<<>>} \cup {<<t>> : t \in FailureTexts}}

\* The content of the D3D_BLOB_PDB part of a binary.
PdbBytes(b) == <<80, 68, 66, b.code>>

\* The file name the backend gives the symbols of a binary.
PdbFileName(b) == <<112, 48 + b.code>>

\* The content of the D3D_BLOB_DEBUG_NAME part: the ShaderDebugName header
\* (uint16 Flags, uint16 NameLength, little endian), the name, its
\* terminating zero and zero padding up to a multiple of four bytes.
DebugNameBytes(b) ==
  LET n == PdbFileName(b)
      raw == <<0, 0, Len(n) % 256, Len(n) \div 256>> \o n \o <<0>>
      pad == (4 - (Len(raw) % 4)) % 4
  IN raw \o [k \in 1..pad |-> 0]

\* D3DGetBlobPart (lines 111, 114): the part, or null when the binary has none.
D3DGetBlobPart(b, part) ==
  CASE part = "D3D_BLOB_PDB" -> IF b.pdb THEN <<PdbBytes(b)>> ELSE <<>>
    [] part = "D3D_BLOB_DEBUG_NAME" -> IF b.name THEN <<DebugNameBytes(b)>> ELSE <<>>

\* D3DStripShader with D3DCOMPILER_STRIP_DEBUG_INFO (line 127): the binary
\* without its debug information.
Stripped(b) == [b EXCEPT !.debug = FALSE, !.pdb = FALSE]

\* sizeof(ShaderDebugName), lines 31-35.
SizeofShaderDebugName == 2 + 2

\* Lines 118-121: the zero-terminated string that starts right after the
\* ShaderDebugName header of the name blob.
RECURSIVE CString(_, _)
CString(bytes, i) ==
  IF i > Len(bytes) \/ bytes[i] = 0 THEN <<>> ELSE <<bytes[i]>> \o CString(bytes, i + 1)

FileNameOf(nameBlob) == CString(nameBlob, SizeofShaderDebugName + 1)

\* ------------------------------------------------------------------ state
VARIABLES
  permutations,   \* the list ShaderOption::Permutate returned (Keys)
  hc,             \* what thread::hardware_concurrency() reports
  Options,        \* ShaderCompilationArguments
  Input,          \* context.Input: queue of permutation indices
  IsFailed,       \* context.IsFailed
  Output,         \* context.Output
  Messages,       \* context.Messages
  InputMutex, OutputMutex, MessagesMutex,   \* holder (0: free)
  pcMain,         \* position of CompileShader
  threadCount,    \* local of CompileShader
  threads,        \* number of CreateThread calls made
  returned,       \* value CompileShader returned
  pcCaller,       \* position of main around its CompileShader call
  written,        \* the argument of main's WriteShaderOutput call, if made
  pc,             \* position of each CompileWorker
  permutation, result, success, binary, errors, messages, message, found,
  crashed,        \* the process died on an access violation
  attempts,       \* history: backend invocations per permutation
  failures,       \* history: permutations whose invocation failed
  compiled,       \* history: the binary the backend produced per permutation
  flagsPassed,    \* history: the flags the backend was invoked with
  produced,       \* history: per line, how many invocations produced it
  printed         \* history: per line, how many times it was printed

ctx == <<Input, IsFailed, Output, Messages, InputMutex, OutputMutex, MessagesMutex>>
inputs == <<permutations, hc, Options>>
main == <<pcMain, threadCount, threads, returned>>
caller == <<pcCaller, written>>
locals == <<permutation, result, success, binary, errors, messages, message, found>>
history == <<attempts, failures, compiled, flagsPassed, produced, printed>>
vars == <<inputs, ctx, main, caller, pc, locals, crashed, history>>

\* The min macro of line 177: ((a) < (b)) ? (a) : (b).
Min(a, b) == IF a < b THEN a ELSE b

Workers == 1..MaxHC
OptimizationLevels == {1}

N == Len(permutations)

\* CompiledShader result{} (line 54).
EmptyResult == [Key |-> "", Data |-> <<>>, PdbName |-> <<>>, PdbData |-> <<>>]

\* The permutation lists: up to MaxPerms permutations whose Keys are all
\* different, or (a caller's slip) all but the first the same.
KeyOf == <<"k1", "k2", "k3", "k4", "k5", "k6">>
PermutationLists ==
  UNION {{[i \in 1..n |-> KeyOf[i]], [i \in 1..n |-> KeyOf[Min(i, 2)]]} : n \in 0..MaxPerms}

OptionSets ==
  [IsDebug : BOOLEAN, UseExternalDebugSymbols : BOOLEAN, OptimizationLevel : OptimizationLevels]

\* The state when CompileShader reaches line 177: the context is
\* constructed (lines 20-28), every permutation is queued in order.
InitOver(lists, hcs, opts) ==
  /\ permutations \in lists
  /\ hc \in hcs
  /\ Options \in opts
  /\ Input = [i \in 1..Len(permutations) |-> i]
  /\ IsFailed = FALSE
  /\ Output = <<>>
  /\ Messages = {}
  /\ InputMutex = 0 /\ OutputMutex = 0 /\ MessagesMutex = 0
  /\ pcMain = "size"
  /\ threadCount = 0
  /\ threads = 0
  /\ returned = <<>>
  /\ pcCaller = "compile"
  /\ written = <<>>
  /\ pc = [w \in Workers |-> "idle"]
  /\ permutation = [w \in Workers |-> 0]
  /\ result = [w \in Workers |-> EmptyResult]
  /\ success = [w \in Workers |-> FALSE]
  /\ binary = [w \in Workers |-> <<>>]
  /\ errors = [w \in Workers |-> <<>>]
  /\ messages = [w \in Workers |-> <<>>]
  /\ message = [w \in Workers |-> <<>>]
  /\ found = [w \in Workers |-> FALSE]
  /\ crashed = FALSE
  /\ attempts = [i \in 1..Len(permutations) |-> 0]
  /\ failures = {}
  /\ compiled = [i \in 1..Len(permutations) |-> <<>>]
  /\ flagsPassed = [i \in 1..Len(permutations) |-> <<>>]
  /\ produced = [l \in AllLines |-> 0]
  /\ printed = [l \in AllLines |-> 0]

\* Release builds on any machine.
Init == InitOver(PermutationLists, 0..MaxHC, {o \in OptionSets : ~o.IsDebug /\ ~o.UseExternalDebugSymbols})

\* Every combination of the debug options, on a machine with one or two
\* cores.
InitDebug == InitOver(PermutationLists, {1, 2}, OptionSets)

\* ------------------------------------------------------ CompileShader
\* A pool of one thread per permutation, whatever the machine.
ThreadCount_PerPermutation(concurrency, count) == count

\* A pool that is never empty, not even for an empty batch.
ThreadCount_AtLeastOne(concurrency, count) ==
  IF Min(concurrency, count) = 0 THEN 1 ELSE Min(concurrency, count)

\* Line 177: min(thread::hardware_concurrency(), permutations.size()).
ThreadCount(concurrency, count) == Min(concurrency, count)

\* Line 177-178: the pool is sized from the hardware concurrency and the
\* number of permutations.
SizePool ==
  /\ ~crashed
  /\ pcMain = "size"
  /\ threadCount' = ThreadCount(hc, N)
  /\ pcMain' = "create"
  /\ UNCHANGED <<inputs, caller, ctx, threads, returned, pc, locals, crashed, history>>

\* Lines 179-182: one CreateThread per element of the handle vector; the
\* new thread starts CompileWorker at once.
CreateThread ==
  /\ ~crashed
  /\ pcMain = "create"
  /\ threads < threadCount
  /\ threads' = threads + 1
  /\ pc' = [pc EXCEPT ![threads + 1] = "lock_input"]
  /\ UNCHANGED <<inputs, caller, ctx, pcMain, threadCount, returned, locals, crashed, history>>

\* Line 184: WaitForMultipleObjects(n, handles, true, INFINITE) returns when
\* every handle is signalled, i.e. every thread has terminated; called with
\* n = 0 it fails with WAIT_FAILED at once, and the result is not looked at.
WaitForMultipleObjects ==
  /\ ~crashed
  /\ pcMain = "create"
  /\ threads = threadCount
  /\ threadCount = 0 \/ \A w \in 1..threads : pc[w] = "exit"
  /\ pcMain' = "joined"
  /\ UNCHANGED <<inputs, caller, ctx, threadCount, threads, returned, pc, locals, crashed, history>>

\* A return that hands out whatever was collected.
ReturnValue_Partial(isFailed, output) == output

\* Lines 185-194: an empty vector when the failure flag is set, else the
\* collected output.
ReturnValue(isFailed, output) == IF isFailed THEN <<>> ELSE output

\* Lines 185-194: the failure flag is read and the call returns; on the
\* success path Output is moved from.
Return ==
  /\ ~crashed
  /\ pcMain = "joined"
  /\ returned' = ReturnValue(IsFailed, Output)
  /\ Output' = IF IsFailed THEN Output ELSE <<>>
  /\ pcMain' = "done"
  /\ UNCHANGED <<inputs, caller, Input, IsFailed, Messages, InputMutex, OutputMutex, MessagesMutex,
                 threadCount, threads, pc, locals, crashed, history>>

\* ------------------------------------------------------------- main
\* A caller that writes whatever CompileShader returned.
ShouldWrite_Always(output) == TRUE

\* main.cpp line 53: if (!output.empty()).
ShouldWrite(output) == output # <<>>

\* main.cpp lines 51-57: CompileShader has returned into 'output';
\* WriteShaderOutput is called with it when it is not empty.  (Line 47 holds
\* for the whole model: the call is made only with an output directory.)
WriteShaderOutput ==
  /\ ~crashed
  /\ pcMain = "done"
  /\ pcCaller = "compile"
  /\ written' = IF ShouldWrite(returned) THEN <<returned>> ELSE <<>>
  /\ pcCaller' = "exit"
  /\ UNCHANGED <<inputs, ctx, main, pc, locals, crashed, history>>

\* ------------------------------------------------------ CompileWorker
\* The locals of one loop iteration, as they are when the iteration starts.
ResetLocals(w) ==
  /\ permutation' = [permutation EXCEPT ![w] = 0]
  /\ result' = [result EXCEPT ![w] = EmptyResult]
  /\ success' = [success EXCEPT ![w] = FALSE]
  /\ binary' = [binary EXCEPT ![w] = <<>>]
  /\ errors' = [errors EXCEPT ![w] = <<>>]
  /\ messages' = [messages EXCEPT ![w] = <<>>]
  /\ message' = [message EXCEPT ![w] = <<>>]
  /\ found' = [found EXCEPT ![w] = FALSE]

\* Line 46: lock_guard<mutex> lock(context.InputMutex).
LockInput(w) ==
  /\ ~crashed
  /\ pc[w] = "lock_input"
  /\ InputMutex = 0
  /\ InputMutex' = w
  /\ pc' = [pc EXCEPT ![w] = "take"]
  /\ UNCHANGED <<inputs, caller, Input, IsFailed, Output, Messages, OutputMutex, MessagesMutex,
                 main, locals, crashed, history>>

\* The lock_guard of line 46 living in the loop body instead of its own
\* block: the lock is still held after the pop.
TakeWork_HoldLock(w) ==
  /\ ~crashed
  /\ pc[w] = "take"
  /\ IF Input = <<>>
       THEN /\ pc' = [pc EXCEPT ![w] = "exit"]
            /\ InputMutex' = 0
            /\ UNCHANGED <<Input, permutation>>
       ELSE /\ permutation' = [permutation EXCEPT ![w] = Head(Input)]
            /\ Input' = Tail(Input)
            /\ pc' = [pc EXCEPT ![w] = "compile"]
            /\ UNCHANGED InputMutex
  /\ UNCHANGED <<inputs, caller, IsFailed, Output, Messages, OutputMutex, MessagesMutex, main,
                 result, success, binary, errors, messages, message, found, crashed, history>>

\* Lines 47-51: return when the queue is empty, else take the front; the
\* lock is released on both ways out of the block.
TakeWork(w) ==
  /\ ~crashed
  /\ pc[w] = "take"
  /\ InputMutex' = 0
  /\ IF Input = <<>>
       THEN /\ pc' = [pc EXCEPT ![w] = "exit"]
            /\ UNCHANGED <<Input, permutation>>
       ELSE /\ permutation' = [permutation EXCEPT ![w] = Head(Input)]
            /\ Input' = Tail(Input)
            /\ pc' = [pc EXCEPT ![w] = "compile"]
  /\ UNCHANGED <<inputs, caller, IsFailed, Output, Messages, OutputMutex, MessagesMutex, main,
                 result, success, binary, errors, messages, message, found, crashed, history>>

\* Lines 54-102: the result gets the permutation's Key, the flags are
\* derived from the options and the backend is invoked.
Compile(w) ==
  /\ ~crashed
  /\ pc[w] = "compile"
  /\ LET i == permutation[w]
         flags == CompilationFlags(Options)
     IN \E r \in D3DCompileFromFile(i, flags) :
          /\ result' = [result EXCEPT ![w] = [EmptyResult EXCEPT !.Key = permutations[i]]]
          /\ success' = [success EXCEPT ![w] = r.success]
          /\ binary' = [binary EXCEPT ![w] = r.binary]
          /\ errors' = [errors EXCEPT ![w] = r.errors]
          /\ attempts' = [attempts EXCEPT ![i] = @ + 1]
          /\ failures' = IF r.success THEN failures ELSE failures \cup {i}
          /\ compiled' = [compiled EXCEPT ![i] = r.binary]
          /\ flagsPassed' = [flagsPassed EXCEPT ![i] = <<flags>>]
          /\ produced' = [l \in AllLines |->
                            IF r.errors # <<>> /\ \E k \in DOMAIN LinesOf(r.errors[1]) :
                                                     LinesOf(r.errors[1])[k] = l
                              THEN produced[l] + 1 ELSE produced[l]]
          /\ pc' = [pc EXCEPT ![w] = IF r.success THEN "post" ELSE "messages"]
  /\ UNCHANGED <<inputs, caller, ctx, main, permutation, messages, message, found, crashed, printed>>

\* The debug-symbol path without the swap of line 128.
ExtractDebug_NoSwap(res, b, stripOk) ==
  LET pdb == D3DGetBlobPart(b, "D3D_BLOB_PDB")
      pdbName == D3DGetBlobPart(b, "D3D_BLOB_DEBUG_NAME")
  IN [result |-> IF pdb # <<>> /\ pdbName # <<>>
                   THEN [res EXCEPT !.PdbName = FileNameOf(pdbName[1]), !.PdbData = pdb[1]]
                   ELSE res,
      binary |-> <<b>>]

\* Lines 108-129 on a binary b: the pdb and name blobs are extracted; when
\* both exist the result gets the file name and the symbols; the binary is
\* then swapped for what D3DStripShader put into 'stripped' (null when the
\* call failed: its HRESULT is not looked at).
ExtractDebug(res, b, stripOk) ==
  LET pdb == D3DGetBlobPart(b, "D3D_BLOB_PDB")
      pdbName == D3DGetBlobPart(b, "D3D_BLOB_DEBUG_NAME")
      res2 == IF pdb # <<>> /\ pdbName # <<>>
                THEN [res EXCEPT !.PdbName = FileNameOf(pdbName[1]), !.PdbData = pdb[1]]
                ELSE res
      stripped == IF stripOk THEN <<Stripped(b)>> ELSE <<>>
  IN [result |-> res2, binary |-> stripped]

\* Line 108: the condition of the debug-symbol path.
WantsExternalSymbols(options) == options.IsDebug /\ options.UseExternalDebugSymbols

\* Lines 105-136: post processing of a successful compile; reading a null
\* binary at line 133 is an access violation.
PostProcess(w) ==
  /\ ~crashed
  /\ pc[w] = "post"
  /\ \E stripOk \in IF WantsExternalSymbols(Options) THEN BOOLEAN ELSE {TRUE} :
       LET x == IF WantsExternalSymbols(Options)
                  THEN ExtractDebug(result[w], binary[w][1], stripOk)
                  ELSE [result |-> result[w], binary |-> binary[w]]
       IN IF x.binary = <<>>
            THEN /\ crashed' = TRUE
                 /\ UNCHANGED <<result, binary, pc>>
            ELSE /\ result' = [result EXCEPT ![w] = [x.result EXCEPT !.Data = x.binary[1]]]
                 /\ binary' = [binary EXCEPT ![w] = x.binary]
                 /\ pc' = [pc EXCEPT ![w] = "messages"]
                 /\ UNCHANGED crashed
  /\ UNCHANGED <<inputs, caller, ctx, main, permutation, success, errors, messages, message, found,
                 history>>

\* Line 139: the stream over the diagnostic blob; errors-> on a null blob
\* is an access violation.
OpenMessages(w) ==
  /\ ~crashed
  /\ pc[w] = "messages"
  /\ IF errors[w] = <<>>
       THEN /\ crashed' = TRUE
            /\ UNCHANGED <<messages, pc>>
       ELSE /\ messages' = [messages EXCEPT ![w] = errors[w][1]]
            /\ pc' = [pc EXCEPT ![w] = "getline"]
            /\ UNCHANGED crashed
  /\ UNCHANGED <<inputs, caller, ctx, main, permutation, result, success, binary, errors, message,
                 found, history>>

\* Lines 143-145: the next line; a line the regex matches is skipped; for
\* any other line emplace starts by looking the line up in the set.  No
\* lock is held here: MessagesMutex is taken only at line 147.
NextMessage(w) ==
  /\ ~crashed
  /\ pc[w] = "getline"
  /\ LET g == GetLine(messages[w]) IN
       IF ~g.ok
         THEN /\ pc' = [pc EXCEPT ![w] = "store"]
              /\ UNCHANGED <<messages, message, found>>
         ELSE /\ messages' = [messages EXCEPT ![w] = g.rest]
              /\ message' = [message EXCEPT ![w] = g.line]
              /\ IF RegexMatch(g.line)
                   THEN /\ UNCHANGED <<pc, found>>
                   ELSE /\ found' = [found EXCEPT ![w] = g.line \in Messages]
                        /\ pc' = [pc EXCEPT ![w] = "emplace"]
  /\ UNCHANGED <<inputs, caller, ctx, main, permutation, result, success, binary, errors, crashed,
                 history>>

\* Line 145, second half of context.Messages.emplace(message): a line that
\* the lookup did not find is inserted and .second is true.  The set is
\* accessed by several workers with no lock held, so a lookup and the
\* insert that follows it are not one step: another worker's emplace can
\* run in between.
Emplace(w) ==
  /\ ~crashed
  /\ pc[w] = "emplace"
  /\ IF found[w]
       THEN /\ pc' = [pc EXCEPT ![w] = "getline"]
            /\ UNCHANGED Messages
       ELSE /\ Messages' = Messages \cup {message[w]}
            /\ pc' = [pc EXCEPT ![w] = "lock_messages"]
  /\ found' = [found EXCEPT ![w] = FALSE]
  /\ UNCHANGED <<inputs, caller, Input, IsFailed, Output, InputMutex, OutputMutex, MessagesMutex,
                 main, permutation, result, success, binary, errors, messages, message,
                 crashed, history>>

\* Line 147: lock_guard<mutex> lock(context.MessagesMutex).
LockMessages(w) ==
  /\ ~crashed
  /\ pc[w] = "lock_messages"
  /\ MessagesMutex = 0
  /\ MessagesMutex' = w
  /\ pc' = [pc EXCEPT ![w] = "print"]
  /\ UNCHANGED <<inputs, caller, Input, IsFailed, Output, Messages, InputMutex, OutputMutex,
                 main, locals, crashed, history>>

\* The message lock taken at line 147 and not released after the printf.
PrintMessage_NoUnlock(w) ==
  /\ ~crashed
  /\ pc[w] = "print"
  /\ printed' = [printed EXCEPT ![message[w]] = @ + 1]
  /\ pc' = [pc EXCEPT ![w] = "getline"]
  /\ UNCHANGED <<inputs, caller, ctx, main, locals, crashed, attempts, failures, compiled,
                 flagsPassed, produced>>

\* Lines 148-149: printf of the line, then the lock is released.
PrintMessage(w) ==
  /\ ~crashed
  /\ pc[w] = "print"
  /\ printed' = [printed EXCEPT ![message[w]] = @ + 1]
  /\ MessagesMutex' = 0
  /\ pc' = [pc EXCEPT ![w] = "getline"]
  /\ UNCHANGED <<inputs, caller, Input, IsFailed, Output, Messages, InputMutex, OutputMutex,
                 main, locals, crashed, attempts, failures, compiled, flagsPassed, produced>>

\* The worker storing !success into the flag on both paths.
StoreOrFail_Overwrite(w) ==
  /\ ~crashed
  /\ pc[w] = "store"
  /\ IsFailed' = ~success[w]
  /\ IF success[w]
       THEN /\ OutputMutex = 0
            /\ OutputMutex' = w
            /\ pc' = [pc EXCEPT ![w] = "push"]
            /\ UNCHANGED locals
       ELSE /\ pc' = [pc EXCEPT ![w] = "lock_input"]
            /\ ResetLocals(w)
            /\ UNCHANGED OutputMutex
  /\ UNCHANGED <<inputs, caller, Input, Output, Messages, InputMutex, MessagesMutex, main,
                 crashed, history>>

\* Lines 154-156 and 159-162: a successful worker goes for the output
\* lock, a failed one sets the failure flag and starts the next iteration.
\* The flag is a plain bool written without a lock; every writer stores
\* true and nothing reads it before the threads are joined, so whichever
\* store lands last the flag is true.
StoreOrFail(w) ==
  /\ ~crashed
  /\ pc[w] = "store"
  /\ IF success[w]
       THEN /\ OutputMutex = 0
            /\ OutputMutex' = w
            /\ pc' = [pc EXCEPT ![w] = "push"]
            /\ UNCHANGED <<IsFailed, locals>>
       ELSE /\ IsFailed' = TRUE
            /\ pc' = [pc EXCEPT ![w] = "lock_input"]
            /\ ResetLocals(w)
            /\ UNCHANGED OutputMutex
  /\ UNCHANGED <<inputs, caller, Input, Output, Messages, InputMutex, MessagesMutex, main,
                 crashed, history>>

\* Lines 157-158: the result is moved to the end of Output and the lock is
\* released; the next iteration starts.
PushResult(w) ==
  /\ ~crashed
  /\ pc[w] = "push"
  /\ Output' = Append(Output, result[w])
  /\ OutputMutex' = 0
  /\ pc' = [pc EXCEPT ![w] = "lock_input"]
  /\ ResetLocals(w)
  /\ UNCHANGED <<inputs, caller, Input, IsFailed, Messages, InputMutex, MessagesMutex, main,
                 crashed, history>>

CompileWorker(w) ==
  \/ LockInput(w)
  \/ TakeWork(w)
  \/ Compile(w)
  \/ PostProcess(w)
  \/ OpenMessages(w)
  \/ NextMessage(w)
  \/ Emplace(w)
  \/ LockMessages(w)
  \/ PrintMessage(w)
  \/ StoreOrFail(w)
  \/ PushResult(w)

Next ==
  \/ SizePool
  \/ CreateThread
  \/ WaitForMultipleObjects
  \/ Return
  \/ WriteShaderOutput
  \/ \E w \in Workers : CompileWorker(w)

Spec == Init /\ [][Next]_vars

SpecDebug == InitDebug /\ [][Next]_vars

\* Every optimization level from -2 to 4, with and without IsDebug, on a
\* machine with one core.
InitFlags ==
  InitOver(PermutationLists, {1},
           [IsDebug : BOOLEAN, UseExternalDebugSymbols : {FALSE}, OptimizationLevel : -2..4])

SpecFlags == InitFlags /\ [][Next]_vars

\* Scheduling: CompileShader's thread and every created worker thread keep
\* being scheduled, and a backend call returns (Compile and PostProcess are
\* steps of the worker).
Fairness ==
  /\ WF_vars(SizePool \/ CreateThread \/ WaitForMultipleObjects \/ Return)
  /\ WF_vars(WriteShaderOutput)
  /\ \A w \in Workers : WF_vars(CompileWorker(w))

SpecFair == Init /\ [][Next]_vars /\ Fairness

\* ------------------------------------------------------------ properties
Done == pcMain = "done"

\* How often key k occurs among the Keys of a sequence of records, and in
\* the permutation list.
RECURSIVE CountKey(_, _)
CountKey(seq, k) ==
  IF seq = <<>> THEN 0 ELSE (IF Head(seq).Key = k THEN 1 ELSE 0) + CountKey(Tail(seq), k)

RECURSIVE CountIn(_, _)
CountIn(seq, k) ==
  IF seq = <<>> THEN 0 ELSE (IF Head(seq) = k THEN 1 ELSE 0) + CountIn(Tail(seq), k)

AllKeys == {KeyOf[i] : i \in DOMAIN KeyOf}

AllAttempted == \A i \in 1..N : attempts[i] >= 1
AllTerminated == \A w \in 1..threads : pc[w] = "exit"

\* C1: when the call has returned from a non-empty batch none of whose
\* backend invocations failed, the returned sequence has one CompiledShader
\* per permutation and its Keys are the permutations' Keys as a multiset.
C1_OnePerPermutation ==
  (Done /\ N >= 1 /\ failures = {}) =>
    /\ Len(returned) = N
    /\ \A k \in AllKeys : CountKey(returned, k) = CountIn(permutations, k)

\* C2: when the call has returned from a batch in which some backend
\* invocation failed, the returned sequence is empty.
C2_AllOrNothing == (Done /\ failures # {}) => returned = <<>>

\* C2 happens: a batch has returned in which one permutation failed and
\* another had compiled and been collected.
C2_Witness == Done /\ failures # {} /\ Output # <<>> /\ returned = <<>>

\* C3: once WaitForMultipleObjects has returned (so before the flag is read
\* and ever after), every launched worker has terminated and every
\* permutation has been attempted.
C3_Barrier == pcMain \in {"joined", "done"} => AllTerminated /\ AllAttempted

\* C4: no permutation is ever handed to the backend twice, and when the
\* call has returned every permutation was handed to it once and the queue
\* is empty.
C4_ExactlyOnce ==
  /\ \A i \in 1..N : attempts[i] <= 1
  /\ Done => Input = <<>> /\ \A i \in 1..N : attempts[i] = 1

\* C5: with an empty permutation list no thread is ever created, the
\* failure flag stays false and the call returns an empty sequence.
C5_EmptyBatch ==
  N = 0 =>
    /\ threads = 0
    /\ \A w \in Workers : pc[w] = "idle"
    /\ ~IsFailed
    /\ Done => returned = <<>>

\* C5 happens: the call has returned from an empty batch on a machine that
\* reports cores.
C5_Witness == N = 0 /\ hc >= 1 /\ Done

\* C6: the number of threads created never exceeds min(C, N), the created
\* threads are exactly the workers that ever ran, and from the wait on the
\* number created is min(C, N).
C6_PoolSize ==
  /\ hc <= N => threads <= hc
  /\ N <= hc => threads <= N
  /\ \A w \in Workers : pc[w] # "idle" <=> w <= threads
  /\ pcMain \in {"joined", "done"} =>
       /\ hc <= N => threads = hc
       /\ N <= hc => threads = N

\* C6 happens: a batch with more permutations than cores has returned and
\* the pool had as many workers as the machine has cores.
C6_Witness == Done /\ 1 <= hc /\ hc < N /\ threads = hc

\* C7: once the pool is launched for a non-empty batch it has at least one
\* worker and at most N.
C7_AtLeastOneWorker ==
  (N >= 1 /\ pcMain \in {"joined", "done"}) => threads >= 1 /\ threads <= N

\* The lines the claims call benign: an X3568 'unknown pragma ignored'
\* warning for target, namespace, entry or option.
BenignPragmaWarning(l) ==
  /\ Len(l) = 4
  /\ l[2] = ": warning X3568: '"
  /\ l[3] \in {"target", "namespace", "entry", "option"}
  /\ l[4] = "' : unknown pragma ignored"

\* C8: a line that is not benign is never printed twice, and when the call
\* has returned a non-benign line that two or more invocations produced has
\* been printed once.
C8_PrintedOnce ==
  \A l \in AllLines :
    ~BenignPragmaWarning(l) =>
      /\ printed[l] <= 1
      /\ (Done /\ produced[l] >= 2) => printed[l] = 1

\* C9: a benign line is never printed and never in the deduplication set.
C9_BenignNeverPrinted ==
  \A l \in AllLines : BenignPragmaWarning(l) => printed[l] = 0 /\ l \notin Messages

\* C9 happens: the call has returned from a batch whose backend produced a
\* benign line.
C9_Witness == Done /\ \E l \in AllLines : BenignPragmaWarning(l) /\ produced[l] >= 1

\* The binary the backend produced for the permutation a stored shader
\* was compiled from.
OriginalOf(shader) == compiled[shader.Data.code][1]

\* C10: every stored CompiledShader, when IsDebug and UseExternalDebugSymbols
\* are set and the binary had both the symbol and the name part, holds the
\* stripped binary, which differs from the original, the symbol file name
\* and the symbols; when one of the two options is off it holds the
\* original binary and neither name nor symbols.
C10_DebugSymbolPath ==
  \A k \in DOMAIN Output :
    LET shader == Output[k]
        original == OriginalOf(shader)
    IN IF Options.IsDebug /\ Options.UseExternalDebugSymbols
         THEN (original.pdb /\ original.name) =>
                /\ shader.Data = [original EXCEPT !.debug = FALSE, !.pdb = FALSE]
                /\ shader.Data # original
                /\ shader.PdbName = PdbFileName(original) /\ shader.PdbName # <<>>
                /\ shader.PdbData = PdbBytes(original) /\ shader.PdbData # <<>>
         ELSE /\ shader.Data = original
              /\ shader.PdbName = <<>>
              /\ shader.PdbData = <<>>

\* C10 happens: a shader compiled with external symbols, whose binary had
\* both parts, is stored.
C10_Witness ==
  /\ Options.IsDebug /\ Options.UseExternalDebugSymbols
  /\ \E k \in DOMAIN Output : OriginalOf(Output[k]).pdb /\ OriginalOf(Output[k]).name

\* C11: every stored CompiledShader that was compiled with IsDebug and
\* UseExternalDebugSymbols from a binary lacking the symbol part or the name
\* part holds the original, unstripped binary and neither name nor
\* symbols, and its permutation did not count as failed.
C11_MissingBlobsLeaveBinary ==
  \A k \in DOMAIN Output :
    LET shader == Output[k]
        original == OriginalOf(shader)
    IN (Options.IsDebug /\ Options.UseExternalDebugSymbols
          /\ ~(original.pdb /\ original.name)) =>
         /\ shader.Data = original
         /\ shader.PdbName = <<>>
         /\ shader.PdbData = <<>>
         /\ shader.Data.code \notin failures

\* C12: under fair scheduling every launched worker eventually terminates
\* and CompileShader eventually returns.
C12_Termination == <>(Done /\ AllTerminated)

\* C13: main calls WriteShaderOutput only for a batch none of whose
\* invocations failed, and then with the non-empty sequence CompileShader
\* returned, which has one artifact per permutation.
C13_NoPartialWrite ==
  written # <<>> =>
    /\ failures = {}
    /\ written[1] = returned
    /\ written[1] # <<>>
    /\ Len(written[1]) = N

\* C13 happens: main has gone past the call for a batch in which one
\* permutation failed after another had been collected, and wrote nothing.
C13_Witness == pcCaller = "exit" /\ failures # {} /\ Output # <<>> /\ written = <<>>

DefinedLevels == {-1, 0, 1, 2, 3}

\* What the flags f hold besides the two debug flags.
WithoutDebugFlags(f) ==
  f - (IF BitAnd(f, D3DCOMPILE_DEBUG) # 0 THEN D3DCOMPILE_DEBUG ELSE 0)
    - (IF BitAnd(f, D3DCOMPILE_DEBUG_NAME_FOR_BINARY) # 0
         THEN D3DCOMPILE_DEBUG_NAME_FOR_BINARY ELSE 0)

\* C14: the flags of every backend invocation hold the two debug flags
\* exactly when IsDebug is set; with a level outside -1..3 they hold nothing
\* else; with a level in -1..3 what they hold besides differs from what any
\* other level in -1..3 contributes.
C14_FlagMapping ==
  \A i \in 1..N :
    flagsPassed[i] # <<>> =>
      LET f == flagsPassed[i][1]
          level == Options.OptimizationLevel
      IN /\ (BitAnd(f, D3DCOMPILE_DEBUG) # 0) = Options.IsDebug
         /\ (BitAnd(f, D3DCOMPILE_DEBUG_NAME_FOR_BINARY) # 0) = Options.IsDebug
         /\ level \notin DefinedLevels => WithoutDebugFlags(f) = 0
         /\ level \in DefinedLevels =>
              \A m \in DefinedLevels \ {level} :
                /\ WithoutDebugFlags(f) # OptimizationFlags(m)
                /\ f # CompilationFlags([Options EXCEPT !.OptimizationLevel = m])

\* C14 happens: the backend was invoked in a debug build at level 2.
C14_Witness ==
  /\ Options.IsDebug /\ Options.OptimizationLevel = 2
  /\ \E i \in 1..N : flagsPassed[i] # <<>>

\* C15: the failure flag starts false; a step that changes it sets it, and
\* is the step in which a worker whose invocation failed records the failure;
\* every such step leaves it set; once set it stays set; and the step in
\* which CompileShader reads it is taken when every launched worker has
\* terminated.
C15_SaturatingFlag ==
  /\ ~IsFailed
  /\ [][/\ IsFailed => IsFailed'
        /\ IsFailed' # IsFailed =>
             \E w \in Workers : pc[w] = "store" /\ ~success[w] /\ pc'[w] = "lock_input"
        /\ \A w \in Workers :
             (pc[w] = "store" /\ ~success[w] /\ pc'[w] # pc[w]) => IsFailed'
        /\ (pcMain = "joined" /\ pcMain' = "done") =>
             AllTerminated /\ (returned' = <<>> \/ ~IsFailed)]_vars

\* C15 happens: the flag is set while a worker is about to store a later
\* successful result.
C15_Witness == IsFailed /\ \E w \in Workers : pc[w] = "push"

\* C16: a worker that is in the backend compile call or in the debug-blob
\* extraction and strip calls holds none of the three locks, and a worker
\* holds a lock only inside that lock's own block: InputMutex in lines
\* 46-51, MessagesMutex in lines 147-149, OutputMutex in lines 156-158.
C16_NoLockAcrossBackend ==
  \A w \in Workers :
    /\ pc[w] \in {"compile", "post"} =>
         InputMutex # w /\ OutputMutex # w /\ MessagesMutex # w
    /\ InputMutex = w => pc[w] = "take"
    /\ MessagesMutex = w => pc[w] = "print"
    /\ OutputMutex = w => pc[w] = "push"

\* C16 happens: one worker is in the debug-blob extraction of a build with
\* external symbols while another worker holds the queue lock.
C16_Witness ==
  /\ Options.IsDebug /\ Options.UseExternalDebugSymbols
  /\ \E w, v \in Workers : w # v /\ pc[w] = "post" /\ InputMutex = v

\* C17: a worker that is popping the queue holds InputMutex, one that is
\* appending to Output holds OutputMutex, one that is between the lookup
\* and the insert of its check-and-insert on Messages holds MessagesMutex,
\* and no two workers are inside a check-and-insert at once.
C17_AccessUnderLock ==
  /\ \A w \in Workers :
       /\ pc[w] = "take" => InputMutex = w
       /\ pc[w] = "push" => OutputMutex = w
       /\ pc[w] = "emplace" => MessagesMutex = w
  /\ \A w, v \in Workers : (pc[w] = "emplace" /\ pc[v] = "emplace") => w = v

\* The permutations whose backend invocation succeeded.
Succeeded == {i \in 1..N : attempts[i] >= 1} \ failures

\* C18: when the call has returned, every line that is not benign and that
\* some invocation produced, a failed one included, has been printed; and
\* only successful permutations ever add to Output: its entries hold a
\* binary and, with what was returned, are no more than the successes.
C18_DiagnosticsAlways ==
  /\ Done =>
       \A l \in AllLines :
         (~BenignPragmaWarning(l) /\ produced[l] >= 1) => printed[l] >= 1
  /\ \A k \in DOMAIN Output : Output[k].Data # <<>>
  /\ Len(Output) + Len(returned) <= Cardinality(Succeeded)
  /\ failures # {} => Len(Output) < Cardinality({i \in 1..N : attempts[i] >= 1})

\* C18 happens: the call has returned from a batch with a failed
\* permutation, whose two diagnostic lines are printed.
C18_Witness ==
  /\ Done /\ failures # {}
  /\ printed[LineError] >= 1 /\ printed[LinePack] >= 1

\* The locks worker w holds.
LocksHeld(w) ==
  (IF InputMutex = w THEN {"InputMutex"} ELSE {})
    \cup (IF OutputMutex = w THEN {"OutputMutex"} ELSE {})
    \cup (IF MessagesMutex = w THEN {"MessagesMutex"} ELSE {})

\* A worker that is about to acquire a lock: at line 46, 147 or 156.
Acquiring(w) ==
  \/ pc[w] \in {"lock_input", "lock_messages"}
  \/ pc[w] = "store" /\ success[w]

\* C19: a worker holds at most one lock, and holds none when it is about
\* to acquire one; so a worker that holds a lock never waits for a lock.
C19_OneLockAtATime ==
  \A w \in Workers :
    /\ Cardinality(LocksHeld(w)) <= 1
    /\ Acquiring(w) => LocksHeld(w) = {}

\* C19 happens: one worker holds the queue lock while another, holding
\* the message lock, is printing.
C19_Witness ==
  \E w, v \in Workers : w # v /\ InputMutex = w /\ MessagesMutex = v

\* C20: the worker never uses a blob the backend did not produce, so the
\* process never dies on the read of a null blob (the diagnostic blob at
\* line 139, the binary at line 133).
C20_OnlyPresentBlobs == ~crashed

====
